---------------------------- MODULE Spec2Model ----------------------------
(***************************************************************************)
(* Model of the grid-reveal engine of src/Casino_agurez_source.py          *)
(* (class MinesweeperGame).  Cells are pairs <<r, c>> with 0-based row and *)
(* column indices, as in the source.  The difficulty table of the source   *)
(* (9x9/10, 16x16/40, 16x30/99) is scaled down to every tier               *)
(* rows x cols / mines with rows <= MaxRows, cols <= MaxCols,              *)
(* rows*cols <= MaxCells and 0 <= mines < rows*cols.  At most MaxFlags     *)
(* cells carry a flag at a time.                                           *)
(*                                                                         *)
(* The bet ledger (class GamblingSystem) is modelled beside it.  Money is  *)
(* counted in cents, so $1.0 is 100; the amounts a caller passes are       *)
(* whole dollars or $0.50, for which the float arithmetic of the source    *)
(* is exact.  Multipliers are kept in tenths (1.5 is 15).                  *)
(*                                                                         *)
(* Four further specifications share these variables: TierSpec calls the   *)
(* constructor and the ledger with tier names a caller may pass, FloodSpec *)
(* runs one _flood_fill call frame by frame, RoundSpec is the minesweeper  *)
(* round controller (class MinesweeperGamblingGUI) and SlotsSpec the reel  *)
(* game (class SlotsGame) with its spin threads.                           *)
(***************************************************************************)
EXTENDS Integers, FiniteSets, Sequences, TLC

VARIABLES
    rows,         \* self.rows
    cols,         \* self.cols
    mines,        \* self.mines
    board,        \* self.board    : cell -> -1 (mine) or adjacency number
    revealed,     \* self.revealed : cell -> BOOLEAN
    flagged,      \* self.flagged  : cell -> BOOLEAN
    game_over,    \* self.game_over
    game_won,     \* self.game_won
    first_click,  \* self.first_click
    relocated,    \* history: _ensure_safe_first_click has moved a mine
    op,           \* history: the last method called on the game
    ret,          \* history: the value that call returned
    bankroll,            \* GamblingSystem.bankroll, in cents
    current_bet,         \* GamblingSystem.current_bet, in cents
    current_difficulty,  \* GamblingSystem.current_difficulty
    placed,       \* history: <<amount, difficulty>> of the last accepted
                  \*   place_bet not settled since, or <<>>
    ledger_op,    \* history: the last method called on the ledger
    ledger_ret,   \* history: what that call returned
    calls,        \* history: constructor and ledger calls made so far
    flood_stack,  \* the call stack of _flood_fill: frames <<row, col, i>>
    flood_visits, \* history: calls of _flood_fill entered so far
    flood_marked, \* history: cells _flood_fill has marked revealed so far
    gui_difficulty,  \* MinesweeperGamblingGUI.difficulty
    bet_window,   \* the bet dialog of get_bet_amount is open
    rounds,       \* history: games started by start_game so far
    settlements,  \* history: win_game/lose_game calls made by
                  \*   handle_game_end for the game self.game
    gui_op,       \* history: what the last handler run called on the
                  \*   ledger to settle: "win_game", "lose_game" or "none"
    spinners,     \* the animate_spin threads: thread -> its locals
    spins,        \* history: threads started by play_slots so far
    slot_total    \* history: sum of the changes the spin threads computed
                  \*   and have written to the bankroll

gameVars == <<rows, cols, mines, board, revealed, flagged,
              game_over, game_won, first_click>>
ledgerVars == <<bankroll, current_bet, current_difficulty>>
ledgerHistory == <<placed, ledger_op, ledger_ret>>
vars == <<rows, cols, mines, board, revealed, flagged,
          game_over, game_won, first_click, relocated, op, ret,
          bankroll, current_bet, current_difficulty,
          placed, ledger_op, ledger_ret,
          calls, flood_stack, flood_visits, flood_marked,
          gui_difficulty, bet_window, rounds, settlements, gui_op,
          spinners, spins, slot_total>>
tierVars == <<calls>>
floodVars == <<flood_stack, flood_visits, flood_marked>>
roundVars == <<gui_difficulty, bet_window, rounds, settlements, gui_op>>
slotVars == <<spinners, spins, slot_total>>

-----------------------------------------------------------------------------
(* Bounds of the model *)

MaxRows == 3
MaxCols == 3
MaxCells == 6
MaxFlags == 1
MaxBankroll == 110000
MaxCalls == 3
MaxRoundCells == 3
MaxRounds == 2
MaxThreads == 2
MaxSpins == 2

-----------------------------------------------------------------------------
(* Configuration *)

INITIAL_BANKROLL == 10000
MIN_BET == 100
MAX_BET == 100000

\* DIFFICULTIES[d]['multiplier'], in tenths
Multiplier10(d) ==
    CASE d = "easy" -> 15
      [] d = "medium" -> 20
      [] d = "hard" -> 25

\* the keys of DIFFICULTIES
DifficultyNames == {"easy", "medium", "hard"}

-----------------------------------------------------------------------------
(* Helpers *)

MINE == 0 - 1

Cells(nr, nc) == (0 .. nr - 1) \X (0 .. nc - 1)

AllCells == Cells(rows, cols)

\* _is_valid_position
IsValidPosition(row, col) ==
    /\ 0 <= row /\ row < rows
    /\ 0 <= col /\ col < cols

\* the nested loops "for dr in [-1, 0, 1]: for dc in [-1, 0, 1]",
\* skipping dr == 0 and dc == 0, in the order the source visits them
Dirs == << <<0 - 1, 0 - 1>>, <<0 - 1, 0>>, <<0 - 1, 1>>,
           <<0, 0 - 1>>,                  <<0, 1>>,
           <<1, 0 - 1>>,     <<1, 0>>,     <<1, 1>> >>

\* _place_mines: the all-zero board with -1 written at every sampled position
PlaceMines(nr, nc, mine_positions) ==
    [p \in Cells(nr, nc) |-> IF p \in mine_positions THEN MINE ELSE 0]

CalculateNumbersNoDiagonal(nr, nc, b) ==
    [p \in Cells(nr, nc) |->
        IF b[p] = MINE THEN MINE
        ELSE Cardinality({q \in Cells(nr, nc) :
                /\ b[q] = MINE
                /\ \/ q[1] = p[1] /\ (q[2] = p[2] + 1 \/ q[2] = p[2] - 1)
                   \/ q[2] = p[2] /\ (q[1] = p[1] + 1 \/ q[1] = p[1] - 1)})]

\* _calculate_numbers: mines are kept; every other cell gets the number of
\* in-bounds neighbours (r + dr, c + dc) that hold a mine
CalculateNumbers(nr, nc, b) ==
    [p \in Cells(nr, nc) |->
        IF b[p] = MINE THEN MINE
        ELSE Cardinality({i \in 1 .. Len(Dirs) :
                LET nrow == p[1] + Dirs[i][1]
                    ncol == p[2] + Dirs[i][2]
                IN  /\ 0 <= nrow /\ nrow < nr
                    /\ 0 <= ncol /\ ncol < nc
                    /\ b[<<nrow, ncol>>] = MINE})]

\* _flood_fill(row, col) run on the revealed matrix rev over board b; the
\* result is the revealed matrix it leaves.  The neighbours are visited one
\* after the other, each call working on what the calls before it left
\* (the membership test only makes TLC evaluate rev1 before descending).
FloodFillOnlySelf(b, rev, row, col) ==
    IF ~IsValidPosition(row, col) THEN rev
    ELSE [rev EXCEPT ![<<row, col>>] = TRUE]

FloodFillSpreadingAlways(b, rev, row, col) ==
    IF ~IsValidPosition(row, col) THEN rev
    ELSE IF rev[<<row, col>>] THEN rev
    ELSE [p \in AllCells |->
             \/ rev[p]
             \/ (p[1] - row \in {0 - 1, 0, 1} /\ p[2] - col \in {0 - 1, 0, 1})]

FloodFillOneRing(b, rev, row, col) ==
    IF ~IsValidPosition(row, col) THEN rev
    ELSE IF rev[<<row, col>>] THEN rev
    ELSE [p \in AllCells |->
             \/ rev[p]
             \/ p = <<row, col>>
             \/ /\ b[<<row, col>>] = 0
                /\ p[1] - row \in {0 - 1, 0, 1}
                /\ p[2] - col \in {0 - 1, 0, 1}]

RECURSIVE FloodFill(_, _, _, _)
RECURSIVE FloodNeighbours(_, _, _, _, _)

FloodFill(b, rev, row, col) ==
    IF ~IsValidPosition(row, col) THEN rev
    ELSE IF rev[<<row, col>>] THEN rev
    ELSE LET rev1 == [rev EXCEPT ![<<row, col>>] = TRUE]
         IN  IF b[<<row, col>>] = 0
             THEN FloodNeighbours(b, rev1, row, col, 1)
             ELSE rev1

FloodNeighbours(b, rev, row, col, i) ==
    IF i > Len(Dirs) THEN rev
    ELSE LET rev1 == FloodFill(b, rev, row + Dirs[i][1], col + Dirs[i][2])
         IN  IF rev1 \in [AllCells -> BOOLEAN]
             THEN FloodNeighbours(b, rev1, row, col, i + 1)
             ELSE rev

\* _check_win_condition: revealed_count == total_cells - self.mines
RevealedCount(rev) == Cardinality({p \in AllCells : rev[p]})

CheckWinConditionAllCells(rev) == RevealedCount(rev) = rows * cols

CheckWinCondition(rev) == RevealedCount(rev) = rows * cols - mines

SafeSpotsAnyOther(b, row, col) ==
    {p \in AllCells : p[1] # row \/ p[2] # col}

\* _ensure_safe_first_click: safe_spots
SafeSpots(b, row, col) ==
    {p \in AllCells : b[p] # MINE /\ (p[1] # row \/ p[2] # col)}

EnsureSafeFirstClickSkipped(b, row, col) == {b}

EnsureSafeFirstClickKeepingMine(b, row, col) ==
    IF b[<<row, col>>] = MINE /\ SafeSpots(b, row, col) # {}
    THEN {CalculateNumbers(rows, cols, [b EXCEPT ![new] = MINE]) :
          new \in SafeSpots(b, row, col)}
    ELSE {b}

\* _ensure_safe_first_click: the boards it can leave behind
\* (random.choice over safe_spots; unchanged when safe_spots is empty)
EnsureSafeFirstClick(b, row, col) ==
    IF b[<<row, col>>] = MINE /\ SafeSpots(b, row, col) # {}
    THEN {CalculateNumbers(rows, cols,
              [b EXCEPT ![<<row, col>>] = 0, ![new] = MINE]) :
          new \in SafeSpots(b, row, col)}
    ELSE {b}

FlagCount == Cardinality({p \in AllCells : flagged[p]})

-----------------------------------------------------------------------------
(* GamblingSystem.__init__ *)

LedgerInit ==
    /\ bankroll = INITIAL_BANKROLL
    /\ current_bet = 0
    /\ current_difficulty = "easy"
    /\ placed = <<>>
    /\ ledger_op = "__init__"
    /\ ledger_ret = [ok |-> TRUE]

\* The state of what is not running: no constructor or ledger call counted,
\* no _flood_fill frame, no round started, every spin thread idle
Threads == 1 .. MaxThreads

IdleThread == [pc |-> "idle", bet |-> 0, change |-> 0, loaded |-> 0]

TierIdle == calls = 0

FloodIdle == flood_stack = <<>> /\ flood_visits = 0 /\ flood_marked = 0

RoundIdle ==
    /\ gui_difficulty = "easy"
    /\ bet_window = FALSE
    /\ rounds = 0
    /\ settlements = 0
    /\ gui_op = "none"

SlotsIdle ==
    /\ spinners = [t \in Threads |-> IdleThread]
    /\ spins = 0
    /\ slot_total = 0

-----------------------------------------------------------------------------
(* MinesweeperGame.__init__ *)

Init ==
    /\ rows \in 1 .. MaxRows
    /\ cols \in 1 .. MaxCols
    /\ rows * cols <= MaxCells
    /\ mines \in 0 .. rows * cols - 1
    /\ \E mine_positions \in SUBSET Cells(rows, cols) :
          /\ Cardinality(mine_positions) = mines
          /\ board = CalculateNumbers(rows, cols,
                         PlaceMines(rows, cols, mine_positions))
    /\ revealed = [p \in Cells(rows, cols) |-> FALSE]
    /\ flagged = [p \in Cells(rows, cols) |-> FALSE]
    /\ game_over = FALSE
    /\ game_won = FALSE
    /\ first_click = TRUE
    /\ relocated = FALSE
    /\ op = "__init__"
    /\ ret = FALSE
    /\ LedgerInit
    /\ TierIdle /\ FloodIdle /\ RoundIdle /\ SlotsIdle

(* MinesweeperGame.reveal_cell *)

RevealNoOpIgnoringFlag(row, col) ==
    \/ game_over
    \/ ~IsValidPosition(row, col)
    \/ revealed[<<row, col>>]

RevealNoOpIgnoringGameOver(row, col) ==
    \/ ~IsValidPosition(row, col)
    \/ revealed[<<row, col>>]
    \/ flagged[<<row, col>>]

\* the two early "return False" of reveal_cell
RevealNoOp(row, col) ==
    \/ game_over
    \/ ~IsValidPosition(row, col)
    \/ revealed[<<row, col>>]
    \/ flagged[<<row, col>>]

HitMineNever(b, row, col) == FALSE

\* "if self.board[row][col] == -1" after the first-click adjustment
HitMine(b, row, col) == b[<<row, col>>] = MINE

RevealCell(row, col) ==
    /\ op' = "reveal_cell"
    /\ UNCHANGED <<rows, cols, mines, flagged>>
    /\ IF RevealNoOp(row, col)
       THEN /\ ret' = FALSE
            /\ UNCHANGED <<board, revealed, game_over, game_won,
                           first_click, relocated>>
       ELSE /\ \E b \in (IF first_click /\ board[<<row, col>>] = MINE
                         THEN EnsureSafeFirstClick(board, row, col)
                         ELSE {board}) :
                 /\ board' = b
                 /\ relocated' = (relocated \/ b # board)
                 /\ IF HitMine(b, row, col)
                    THEN /\ game_over' = TRUE
                         /\ game_won' = FALSE
                         /\ revealed' = revealed
                    ELSE LET rev == FloodFill(b, revealed, row, col)
                         IN  /\ revealed' = rev
                             /\ IF CheckWinCondition(rev)
                                THEN /\ game_over' = TRUE
                                     /\ game_won' = TRUE
                                ELSE UNCHANGED <<game_over, game_won>>
            /\ first_click' = FALSE
            /\ ret' = TRUE

(* MinesweeperGame.toggle_flag *)

ToggleNoOpWhenRevealedOnly(row, col) ==
    \/ ~IsValidPosition(row, col)
    \/ revealed[<<row, col>>]

ToggleNoOpIgnoringRevealed(row, col) ==
    \/ game_over
    \/ ~IsValidPosition(row, col)

\* the two early "return False" of toggle_flag
ToggleNoOp(row, col) ==
    \/ game_over
    \/ ~IsValidPosition(row, col)
    \/ revealed[<<row, col>>]

\* A flag is set only while fewer than MaxFlags cells carry one (a bound of
\* the model on the caller, not a guard of the code); clearing is always
\* possible.
ToggleFlag(row, col) ==
    /\ op' = "toggle_flag"
    /\ UNCHANGED <<rows, cols, mines, board, revealed, game_over, game_won,
                   first_click, relocated>>
    /\ IF ToggleNoOp(row, col)
       THEN /\ ret' = FALSE
            /\ UNCHANGED flagged
       ELSE /\ flagged[<<row, col>>] \/ FlagCount < MaxFlags
            /\ flagged' = [flagged EXCEPT
                              ![<<row, col>>] = ~flagged[<<row, col>>]]
            /\ ret' = TRUE

\* The positions a caller passes: every cell of the grid, and one position
\* beyond each of the four edges
Positions ==
    AllCells \cup {<<0 - 1, 0>>, <<rows, 0>>, <<0, 0 - 1>>, <<0, cols>>}

Reveal ==
    /\ \E p \in Positions : RevealCell(p[1], p[2])
    /\ UNCHANGED <<ledgerVars, ledgerHistory>>
    /\ UNCHANGED <<tierVars, floodVars, roundVars, slotVars>>

Toggle ==
    /\ \E p \in Positions : ToggleFlag(p[1], p[2])
    /\ UNCHANGED <<ledgerVars, ledgerHistory>>
    /\ UNCHANGED <<tierVars, floodVars, roundVars, slotVars>>

Next == Reveal \/ Toggle

Spec == Init /\ [][Next]_vars

-----------------------------------------------------------------------------
(* The ledger on its own: no game is constructed (self.game = None) and    *)
(* the caller issues place_bet, win_game and lose_game in any order.       *)

NoGame ==
    /\ rows = 0
    /\ cols = 0
    /\ mines = 0
    /\ board = [p \in Cells(0, 0) |-> 0]
    /\ revealed = [p \in Cells(0, 0) |-> FALSE]
    /\ flagged = [p \in Cells(0, 0) |-> FALSE]
    /\ game_over = FALSE
    /\ game_won = FALSE
    /\ first_click = TRUE
    /\ relocated = FALSE
    /\ op = "none"
    /\ ret = FALSE

gameAll == <<rows, cols, mines, board, revealed, flagged,
             game_over, game_won, first_click, relocated, op, ret>>

\* The amounts a caller passes, in cents: $0.50, $1, $10, $50, $1000, $1001
Amounts == {50, 100, 1000, 5000, 100000, 100100}

PlaceBetResultStrictMinimum(amount, difficulty) ==
    IF amount <= MIN_BET \/ amount > MAX_BET
    THEN [ok |-> FALSE, reason |-> "out of bounds"]
    ELSE IF amount > bankroll
    THEN [ok |-> FALSE, reason |-> "insufficient funds"]
    ELSE [ok |-> TRUE, reason |-> "bet placed"]

PlaceBetNoFundsCheck(amount, difficulty) ==
    IF amount < MIN_BET \/ amount > MAX_BET
    THEN [ok |-> FALSE, reason |-> "out of bounds"]
    ELSE [ok |-> TRUE, reason |-> "bet placed"]

\* place_bet: the (success, message) pair it returns
PlaceBetResult(amount, difficulty) ==
    IF amount < MIN_BET \/ amount > MAX_BET
    THEN [ok |-> FALSE, reason |-> "out of bounds"]
    ELSE IF amount > bankroll
    THEN [ok |-> FALSE, reason |-> "insufficient funds"]
    ELSE [ok |-> TRUE, reason |-> "bet placed"]

PlaceBetDebiting(amount, difficulty) ==
    /\ ledger_op' = "place_bet"
    /\ ledger_ret' = PlaceBetResult(amount, difficulty)
    /\ IF PlaceBetResult(amount, difficulty).ok
       THEN /\ current_bet' = amount
            /\ current_difficulty' = difficulty
            /\ placed' = <<amount, difficulty>>
            /\ bankroll' = bankroll - amount
       ELSE UNCHANGED <<bankroll, current_bet, current_difficulty, placed>>

(* GamblingSystem.place_bet *)

PlaceBet(amount, difficulty) ==
    /\ ledger_op' = "place_bet"
    /\ ledger_ret' = PlaceBetResult(amount, difficulty)
    /\ UNCHANGED bankroll
    /\ IF PlaceBetResult(amount, difficulty).ok
       THEN /\ current_bet' = amount
            /\ current_difficulty' = difficulty
            /\ placed' = <<amount, difficulty>>
       ELSE UNCHANGED <<current_bet, current_difficulty, placed>>

PayoutOfEasyTier(bet, difficulty) == (bet * Multiplier10("easy")) \div 10

\* win_game: payout = self.current_bet * DIFFICULTIES[...]['multiplier']
Payout(bet, difficulty) == (bet * Multiplier10(difficulty)) \div 10

(* GamblingSystem.win_game; the payout is capped by MaxBankroll.  The    *)
(* lookup DIFFICULTIES[self.current_difficulty] raises KeyError, before  *)
(* anything is written, when the recorded name is not a key.             *)

WinGame ==
    IF current_difficulty \in DifficultyNames
    THEN LET payout == Payout(current_bet, current_difficulty)
             profit == payout - current_bet
         IN  /\ bankroll + payout <= MaxBankroll
             /\ ledger_op' = "win_game"
             /\ bankroll' = bankroll + payout
             /\ ledger_ret' = [outcome |-> "win", payout |-> payout,
                               profit |-> profit,
                               new_bankroll |-> bankroll + payout]
             /\ current_bet' = 0
             /\ placed' = <<>>
             /\ UNCHANGED current_difficulty
    ELSE /\ ledger_op' = "win_game"
         /\ ledger_ret' = [outcome |-> "KeyError"]
         /\ UNCHANGED <<bankroll, current_bet, current_difficulty, placed>>

LossNothing(bet) == 0

\* lose_game: loss = self.current_bet
Loss(bet) == bet

LoseGameKeepingBet ==
    LET loss == Loss(current_bet)
    IN  /\ ledger_op' = "lose_game"
        /\ bankroll' = bankroll - loss
        /\ ledger_ret' = [outcome |-> "lose", loss |-> loss,
                          new_bankroll |-> bankroll - loss]
        /\ placed' = <<>>
        /\ UNCHANGED <<current_bet, current_difficulty>>

(* GamblingSystem.lose_game *)

LoseGame ==
    LET loss == Loss(current_bet)
    IN  /\ ledger_op' = "lose_game"
        /\ bankroll' = bankroll - loss
        /\ ledger_ret' = [outcome |-> "lose", loss |-> loss,
                          new_bankroll |-> bankroll - loss]
        /\ current_bet' = 0
        /\ placed' = <<>>
        /\ UNCHANGED current_difficulty

Place ==
    /\ \E amount \in Amounts, difficulty \in DifficultyNames :
          PlaceBet(amount, difficulty)
    /\ UNCHANGED gameAll
    /\ UNCHANGED <<tierVars, floodVars, roundVars, slotVars>>

Win ==
    /\ WinGame
    /\ UNCHANGED gameAll
    /\ UNCHANGED <<tierVars, floodVars, roundVars, slotVars>>

Lose ==
    /\ LoseGame
    /\ UNCHANGED gameAll
    /\ UNCHANGED <<tierVars, floodVars, roundVars, slotVars>>

LedgerNext == Place \/ Win \/ Lose

LedgerOnlyInit ==
    /\ NoGame
    /\ LedgerInit
    /\ TierIdle /\ FloodIdle /\ RoundIdle /\ SlotsIdle

LedgerSpec == LedgerOnlyInit /\ [][LedgerNext]_vars

-----------------------------------------------------------------------------
(* The constructor and the ledger called with the tier names a caller may  *)
(* pass: the three keys of DIFFICULTIES and one name that is not a key.    *)
(* At most MaxCalls calls are made.                                        *)

TierNames == DifficultyNames \cup {"expert"}

\* The amounts passed here, in cents: $0.50 and $10
TierAmounts == {50, 1000}

\* MinesweeperGame.__init__ past the lookup of the tier: a fresh game of
\* some tier of at most max_cells cells
NewGame(max_cells) ==
    /\ rows' \in 1 .. MaxRows
    /\ cols' \in 1 .. MaxCols
    /\ rows' * cols' <= max_cells
    /\ mines' \in 0 .. rows' * cols' - 1
    /\ \E mine_positions \in SUBSET Cells(rows', cols') :
          /\ Cardinality(mine_positions) = mines'
          /\ board' = CalculateNumbers(rows', cols',
                          PlaceMines(rows', cols', mine_positions))
    /\ revealed' = [p \in Cells(rows', cols') |-> FALSE]
    /\ flagged' = [p \in Cells(rows', cols') |-> FALSE]
    /\ game_over' = FALSE
    /\ game_won' = FALSE
    /\ first_click' = TRUE
    /\ relocated' = FALSE
    /\ op' = "__init__"
    /\ ret' = FALSE

\* MinesweeperGame(difficulty): DIFFICULTIES[difficulty] raises KeyError for
\* a name that is not a key, and then no object is returned: the game the
\* caller held, if any, is what it still holds.
Construct(difficulty) ==
    IF difficulty \in DifficultyNames
    THEN NewGame(MaxRoundCells)
    ELSE /\ op' = "KeyError"
         /\ UNCHANGED <<gameVars, relocated, ret>>

ConstructTier ==
    /\ calls < MaxCalls
    /\ calls' = calls + 1
    /\ \E difficulty \in TierNames : Construct(difficulty)
    /\ UNCHANGED <<ledgerVars, ledgerHistory>>
    /\ UNCHANGED <<floodVars, roundVars, slotVars>>

PlaceTier ==
    /\ calls < MaxCalls
    /\ calls' = calls + 1
    /\ \E amount \in TierAmounts, difficulty \in TierNames :
          PlaceBet(amount, difficulty)
    /\ UNCHANGED gameAll
    /\ UNCHANGED <<floodVars, roundVars, slotVars>>

WinTier ==
    /\ calls < MaxCalls
    /\ calls' = calls + 1
    /\ WinGame
    /\ UNCHANGED gameAll
    /\ UNCHANGED <<floodVars, roundVars, slotVars>>

LoseTier ==
    /\ calls < MaxCalls
    /\ calls' = calls + 1
    /\ LoseGame
    /\ UNCHANGED gameAll
    /\ UNCHANGED <<floodVars, roundVars, slotVars>>

TierNext == ConstructTier \/ PlaceTier \/ WinTier \/ LoseTier

TierSpec == LedgerOnlyInit /\ [][TierNext]_vars

-----------------------------------------------------------------------------
(* Vocabulary of the properties, stated without the operators above *)

MineCells(b) == {p \in AllCells : b[p] = MINE}

RevealedCells(rev) == {p \in AllCells : rev[p]}

FlaggedCells == {p \in AllCells : flagged[p]}

Abs(n) == IF n < 0 THEN 0 - n ELSE n

\* q is one of the up to eight in-bounds neighbours of p
Adjacent(p, q) ==
    /\ p # q
    /\ Abs(p[1] - q[1]) <= 1
    /\ Abs(p[2] - q[2]) <= 1

MineNeighbours(b, p) == {q \in AllCells : Adjacent(p, q) /\ b[q] = MINE}

Won == game_over /\ game_won

Lost == game_over /\ ~game_won

\* the cells a reveal_cell call on p leaves untouched by its guards
Revealable(p) == ~game_over /\ ~revealed[p] /\ ~flagged[p]

\* the maximal 8-connected set of zero-adjacency cells of b that contains S
RECURSIVE ZeroClosure(_, _)

ZeroClosure(b, S) ==
    LET T == S \cup {q \in AllCells :
                        b[q] = 0 /\ \E s \in S : Adjacent(s, q)}
    IN  IF T = S THEN S ELSE ZeroClosure(b, T)

\* that component together with every cell bordering it
Region(b, p) ==
    LET Z == ZeroClosure(b, {p})
    IN  Z \cup {q \in AllCells : \E z \in Z : Adjacent(z, q)}

-----------------------------------------------------------------------------
(* C1: right after construction exactly `mines` cells hold the mine        *)
(* sentinel, every other cell holds the number of mines among its          *)
(* in-bounds 8-neighbours, and no cell is revealed or flagged.             *)

C1_Construction ==
    op = "__init__" =>
        /\ Cardinality(MineCells(board)) = mines
        /\ \A p \in AllCells \ MineCells(board) :
              board[p] = Cardinality(MineNeighbours(board, p))
        /\ \A p \in AllCells : ~revealed[p] /\ ~flagged[p]

C1_Witness ==
    /\ op = "__init__"
    /\ mines >= 3
    /\ \E p \in AllCells : board[p] >= 3
    /\ \E p \in AllCells : board[p] \in 1 .. 2

(* C2: the first reveal of a game never leaves it Lost, unless             *)
(* mines = rows*cols - 1, the target is a mine and no other cell is free   *)
(* of mines to take it.  (Checked for every reveal made while first_click  *)
(* is still set, the very first call included.)                            *)

C2_FirstMoveSafe ==
    [][\A p \in AllCells :
          (first_click /\ RevealCell(p[1], p[2]) /\ Lost')
              => /\ mines = rows * cols - 1
                 /\ board[p] = MINE
                 /\ \A q \in AllCells \ {p} : board[q] = MINE]_vars

C2_Witness ==
    /\ relocated
    /\ op = "reveal_cell"
    /\ ret = TRUE
    /\ ~game_over
    /\ Cardinality(RevealedCells(revealed)) >= 1

(* C3 as stated: with mines = rows*cols - 1, a first reveal on a mine      *)
(* leaves the mine layout unchanged and the game Lost.                     *)

C3_RelocationSkipped ==
    [][\A p \in AllCells :
          (/\ mines = rows * cols - 1
           /\ first_click
           /\ Revealable(p)
           /\ board[p] = MINE
           /\ RevealCell(p[1], p[2]))
              => (board' = board /\ Lost')]_vars

(* C3 amended: with mines = rows*cols - 1, a first reveal on a mine moves  *)
(* that mine to the single mine-free cell; the number of mines stays       *)
(* `mines`, the target becomes the only safe cell, is revealed, and the    *)
(* game is Won; the call returns True.                                     *)

C3_RelocatedToLastSafeCell ==
    [][\A p \in AllCells :
          (/\ mines = rows * cols - 1
           /\ first_click
           /\ Revealable(p)
           /\ board[p] = MINE
           /\ RevealCell(p[1], p[2]))
              => /\ \E q \in AllCells \ {p} :
                       /\ board[q] # MINE
                       /\ MineCells(board') = (MineCells(board) \ {p}) \cup {q}
                 /\ Cardinality(MineCells(board')) = mines
                 /\ board'[p] = Cardinality(MineNeighbours(board', p))
                 /\ RevealedCells(revealed') = {p}
                 /\ Won'
                 /\ ret' = TRUE]_vars

C3_Witness ==
    /\ mines = rows * cols - 1
    /\ mines >= 2
    /\ relocated
    /\ Won
    /\ op = "reveal_cell"
    /\ ret = TRUE

(* C4: in every reachable state no cell is both revealed and flagged.      *)

C4_NoRevealedFlagged ==
    \A p \in AllCells : ~(revealed[p] /\ flagged[p])

(* C5: a reveal never reveals a flagged cell other than its target: every  *)
(* cell flagged and unrevealed before a reveal_cell call, and not its      *)
(* target, is unrevealed after it.                                         *)

C5_FloodFillSparesFlags ==
    [][\A p \in Positions :
          RevealCell(p[1], p[2])
              => \A q \in AllCells \ {p} :
                    (flagged[q] /\ ~revealed[q]) => ~revealed'[q]]_vars

(* C6: a successful reveal of a cell with adjacency 0 reveals exactly the  *)
(* not yet revealed cells of the maximal 8-connected component of zero     *)
(* cells containing the target and of the numbered cells bordering it,     *)
(* and nothing else; a successful reveal of a cell with adjacency 1..8     *)
(* reveals that cell only.                                                 *)

C6_FloodFillCoverage ==
    [][\A p \in AllCells :
          (/\ op' = "reveal_cell" /\ ret' = TRUE /\ board'[p] # MINE
           /\ RevealCell(p[1], p[2]))
              => /\ board'[p] = 0 =>
                       /\ RevealedCells(revealed') =
                              RevealedCells(revealed) \cup Region(board', p)
                       /\ \A q \in Region(board', p) : board'[q] # MINE
                 /\ board'[p] # 0 =>
                       RevealedCells(revealed') =
                           RevealedCells(revealed) \cup {p}]_vars

C6_Witness ==
    /\ op = "reveal_cell"
    /\ ret = TRUE
    /\ ~game_over
    /\ \E p \in AllCells :
          /\ board[p] = 0
          /\ revealed[p]
          /\ Cardinality(ZeroClosure(board, {p})) >= 2
          /\ RevealedCells(revealed) = Region(board, p)
          /\ \E q \in Region(board, p) : board[q] > 0

(* C7: in every reachable state the game is Won (game_over and game_won)   *)
(* if and only if the number of revealed cells is rows*cols - mines.       *)

C7_WinDetection ==
    Won <=> (Cardinality(RevealedCells(revealed)) = rows * cols - mines)

C7_Witness ==
    /\ Won
    /\ mines >= 1
    /\ Cardinality(RevealedCells(revealed)) >= 3
    /\ ~relocated

(* C8: once the game is over, every reveal_cell and toggle_flag call, for  *)
(* any position, returns False and changes nothing of the game.            *)

C8_TerminalNoOps ==
    [][\A p \in Positions :
          (game_over /\ (RevealCell(p[1], p[2]) \/ ToggleFlag(p[1], p[2])))
              => /\ ret' = FALSE
                 /\ UNCHANGED gameVars]_vars

C8_Witness ==
    /\ game_over
    /\ op = "toggle_flag"
    /\ ret = FALSE
    /\ \E p \in AllCells : ~revealed[p]

(* C9: on a game that is not over, reveal_cell on a position out of        *)
(* bounds, a revealed cell or a flagged cell returns False and changes     *)
(* nothing; every other reveal_cell call returns True and changes the      *)
(* revealed cells, the terminal state or first_click.  reveal_cell         *)
(* returns True exactly when it changed the game.                          *)

C9_RevealChanged ==
    [][\A p \in Positions :
          (op' = "reveal_cell" /\ RevealCell(p[1], p[2]))
              => /\ ~game_over =>
                       IF p \notin AllCells \/ revealed[p] \/ flagged[p]
                       THEN ret' = FALSE /\ UNCHANGED gameVars
                       ELSE /\ ret' = TRUE
                            /\ \/ revealed' # revealed
                               \/ <<game_over, game_won>>' #
                                      <<game_over, game_won>>
                               \/ first_click' # first_click
                 /\ (ret' = TRUE) <=> (gameVars' # gameVars)]_vars

C9_Witness ==
    /\ ~game_over
    /\ op = "reveal_cell"
    /\ ret = FALSE
    /\ FlaggedCells # {}
    /\ RevealedCells(revealed) # {}

(* C10: a reveal that reaches an unrevealed, unflagged mine when it is not *)
(* the first move (the game not being over) makes the game Lost, returns   *)
(* True and reveals nothing.                                               *)

C10_MineHit ==
    [][\A p \in AllCells :
          (/\ ~first_click
           /\ Revealable(p)
           /\ board[p] = MINE
           /\ RevealCell(p[1], p[2]))
              => /\ Lost'
                 /\ ret' = TRUE
                 /\ revealed' = revealed
                 /\ UNCHANGED <<board, flagged>>]_vars

C10_Witness ==
    /\ Lost
    /\ op = "reveal_cell"
    /\ ret = TRUE
    /\ ~first_click
    /\ RevealedCells(revealed) # {}

(* C11: toggle_flag on a game that is not over, at an in-bounds unrevealed  *)
(* cell, flips that cell's flag, returns True and changes nothing else; a  *)
(* second toggle of the same cell would again be effective and restore the *)
(* flags as they were.  On a game that is over, an out-of-bounds position  *)
(* or a revealed cell it returns False and changes nothing.  It never      *)
(* changes the terminal state.                                             *)

C11_ToggleFlagFrame ==
    [][\A p \in Positions :
          (op' = "toggle_flag" /\ ToggleFlag(p[1], p[2]))
              => /\ UNCHANGED <<game_over, game_won>>
                 /\ IF ~game_over /\ p \in AllCells /\ ~revealed[p]
                    THEN /\ ret' = TRUE
                         /\ flagged'[p] = ~flagged[p]
                         /\ \A q \in AllCells \ {p} : flagged'[q] = flagged[q]
                         /\ UNCHANGED <<rows, cols, mines, board, revealed,
                                        first_click>>
                         /\ ~game_over' /\ ~revealed'[p]
                         /\ [flagged' EXCEPT ![p] = ~flagged'[p]] = flagged
                    ELSE /\ ret' = FALSE
                         /\ UNCHANGED gameVars]_vars

C11_Witness ==
    /\ op = "toggle_flag"
    /\ ret = TRUE
    /\ FlaggedCells = {}
    /\ ~game_over
    /\ ~first_click
    /\ \E p \in AllCells : revealed[p]

(* C12: the terminal state moves Active -> Won | Lost and never again: a   *)
(* game that is not over is not won, a game that is over keeps game_over   *)
(* and game_won for ever, the game becomes Won only in a reveal_cell step  *)
(* that brings the number of revealed cells to rows*cols - mines, and      *)
(* becomes Lost only in a reveal_cell step whose target holds a mine when  *)
(* it is examined (after the first-click adjustment).                      *)

C12_TerminalMachine ==
    [][/\ ~game_over => ~game_won
       /\ game_over => UNCHANGED <<game_over, game_won>>
       /\ (~game_over /\ Won')
             => \E p \in AllCells :
                   /\ RevealCell(p[1], p[2])
                   /\ Cardinality(RevealedCells(revealed)) < rows * cols - mines
                   /\ Cardinality(RevealedCells(revealed')) = rows * cols - mines
       /\ (~game_over /\ Lost')
             => \E p \in AllCells :
                   /\ RevealCell(p[1], p[2])
                   /\ board'[p] = MINE]_vars

C12_Witness ==
    /\ Lost
    /\ op = "reveal_cell"
    /\ ret = FALSE
    /\ \E p \in AllCells : revealed[p]
    /\ \E p \in AllCells : ~revealed[p] /\ board[p] # MINE

-----------------------------------------------------------------------------
(* Properties of the ledger, checked under LedgerSpec *)

InBetBounds(a) == MIN_BET <= a /\ a <= MAX_BET

(* C13: place_bet(amount, tier) is accepted exactly when                   *)
(* MIN_BET <= amount <= MAX_BET and amount <= bankroll; it is rejected as  *)
(* out of bounds when amount < MIN_BET or amount > MAX_BET (whatever the   *)
(* bankroll), and for insufficient funds when the amount is in bounds but  *)
(* above the bankroll; a rejected call leaves bankroll, current_bet and    *)
(* current_difficulty unchanged.                                           *)

C13_PlaceBetValidation ==
    [][\A a \in Amounts, d \in DifficultyNames :
          PlaceBet(a, d)
              => /\ ledger_ret'.ok <=> (InBetBounds(a) /\ a <= bankroll)
                 /\ ~InBetBounds(a) => ledger_ret'.reason = "out of bounds"
                 /\ (InBetBounds(a) /\ a > bankroll)
                       => ledger_ret'.reason = "insufficient funds"
                 /\ ~ledger_ret'.ok => UNCHANGED ledgerVars]_vars

C13_Witness ==
    /\ ledger_op = "place_bet"
    /\ ~ledger_ret.ok
    /\ ledger_ret.reason = "insufficient funds"
    /\ bankroll = 1000
    /\ current_bet = 0

(* C14: an accepted place_bet(amount, tier) sets current_bet = amount and  *)
(* current_difficulty = tier and leaves bankroll unchanged; bankroll       *)
(* changes only in win_game and lose_game.                                 *)

C14_PlaceBetFrame ==
    [][/\ \A a \in Amounts, d \in DifficultyNames :
             (PlaceBet(a, d) /\ ledger_ret'.ok)
                 => /\ current_bet' = a
                    /\ current_difficulty' = d
                    /\ bankroll' = bankroll
       /\ bankroll' # bankroll => ledger_op' \in {"win_game", "lose_game"}]_vars

C14_Witness ==
    /\ ledger_op = "place_bet"
    /\ ledger_ret.ok
    /\ current_bet = 5000
    /\ current_difficulty = "hard"
    /\ bankroll = 5000

(* C15: win_game with an active bet pays current_bet times the multiplier  *)
(* of the tier given to the last accepted place_bet, adds the whole payout *)
(* to bankroll, returns profit = payout - current_bet and new_bankroll =   *)
(* the updated bankroll, and resets current_bet to 0.                      *)

C15_WinGame ==
    [][(WinGame /\ current_bet # 0)
          => /\ placed # <<>>
             /\ ledger_ret'.payout * 10 = current_bet * Multiplier10(placed[2])
             /\ bankroll' = bankroll + ledger_ret'.payout
             /\ ledger_ret'.profit = ledger_ret'.payout - current_bet
             /\ ledger_ret'.new_bankroll = bankroll'
             /\ current_bet' = 0]_vars

C15_Witness ==
    /\ ledger_op = "win_game"
    /\ ledger_ret.payout = 2500
    /\ ledger_ret.profit = 1500
    /\ ledger_ret.new_bankroll = 12500
    /\ bankroll = 12500
    /\ current_bet = 0

(* C16: win_game increases bankroll by exactly current_bet times           *)
(* (multiplier - 1), that is new bankroll = old bankroll + profit; with    *)
(* tier easy, bankroll $100 and a bet of $10 it yields payout $15,         *)
(* profit $5 and new bankroll $105.                                        *)

C16_WinConservation ==
    [][(WinGame /\ current_bet # 0)
          => /\ (bankroll' - bankroll) * 10 =
                    current_bet * (Multiplier10(current_difficulty) - 10)
             /\ bankroll' = bankroll + ledger_ret'.profit
             /\ (current_difficulty = "easy" /\ bankroll = 10000
                    /\ current_bet = 1000)
                   => /\ ledger_ret'.payout = 1500
                      /\ ledger_ret'.profit = 500
                      /\ ledger_ret'.new_bankroll = 10500]_vars

(* C17: lose_game with an active bet decreases bankroll by exactly the     *)
(* former current_bet, returns loss = that bet and new_bankroll = the      *)
(* updated bankroll, and resets current_bet to 0; with bankroll $100 and a *)
(* bet of $10 it yields loss $10 and new bankroll $90.                     *)

C17_LoseGame ==
    [][(LoseGame /\ current_bet # 0)
          => /\ bankroll' = bankroll - current_bet
             /\ ledger_ret'.loss = current_bet
             /\ ledger_ret'.new_bankroll = bankroll'
             /\ current_bet' = 0
             /\ (bankroll = 10000 /\ current_bet = 1000)
                   => /\ ledger_ret'.loss = 1000
                      /\ ledger_ret'.new_bankroll = 9000]_vars

C17_Witness ==
    /\ ledger_op = "lose_game"
    /\ ledger_ret.loss = 1000
    /\ ledger_ret.new_bankroll = 9000
    /\ bankroll = 9000
    /\ current_bet = 0

(* C18: win_game and lose_game called while current_bet is 0 fail with an  *)
(* invalid-call error instead of returning a result, and leave bankroll    *)
(* unchanged.                                                              *)

C18_SettleWithoutBetFails ==
    [][(current_bet = 0 /\ (WinGame \/ LoseGame))
          => /\ ledger_ret'.outcome = "NoActiveBetError"
             /\ bankroll' = bankroll]_vars

(* C19: current_bet is nonzero only while an accepted place_bet has not    *)
(* been settled; it is 0 initially and right after every win_game and      *)
(* lose_game.                                                              *)

C20_NonNegative ==
    bankroll >= 0 /\ current_bet >= 0

C20_Witness ==
    /\ bankroll = 0
    /\ ledger_op = "lose_game"
    /\ ledger_ret.loss = 5000

-----------------------------------------------------------------------------
(* reveal_cell with _flood_fill run call by call.  flood_stack is the call *)
(* stack of _flood_fill, innermost frame last; a frame <<row, col, i>> is  *)
(* the call _flood_fill(row, col), with i = 0 when it has just been        *)
(* entered and i = k when it is about to make the k-th call of its loop    *)
(* (i = Len(Dirs) + 1: the loop is over).  _flood_fill never reads         *)
(* self.flagged, so no flag is set here.                                   *)

FloodReturnsOutOfBoundsOnly(rev, row, col) == ~IsValidPosition(row, col)

\* _flood_fill: "if not self._is_valid_position(row, col) or
\* self.revealed[row][col]: return"
FloodReturns(rev, row, col) ==
    ~IsValidPosition(row, col) \/ rev[<<row, col>>]

\* reveal_cell once the outermost _flood_fill has returned:
\* _check_win_condition, then "return True"
RevealReturn(rev) ==
    /\ ret' = TRUE
    /\ IF CheckWinCondition(rev)
       THEN game_over' = TRUE /\ game_won' = TRUE
       ELSE UNCHANGED <<game_over, game_won>>

\* a _flood_fill call returns to its caller: to the frame below it, or to
\* reveal_cell when it is the outermost one
FloodPop(rev) ==
    /\ flood_stack' = SubSeq(flood_stack, 1, Len(flood_stack) - 1)
    /\ IF Len(flood_stack) = 1
       THEN RevealReturn(rev)
       ELSE UNCHANGED <<game_over, game_won, ret>>

\* one step of the innermost _flood_fill call
FloodStep ==
    /\ flood_stack # <<>>
    /\ LET top == flood_stack[Len(flood_stack)]
           row == top[1]
           col == top[2]
           i == top[3]
       IN  IF i = 0
           THEN /\ flood_visits' = flood_visits + 1
                /\ IF FloodReturns(revealed, row, col)
                   THEN /\ FloodPop(revealed)
                        /\ UNCHANGED <<revealed, flood_marked>>
                   ELSE LET rev == [revealed EXCEPT ![<<row, col>>] = TRUE]
                        IN  /\ revealed' = rev
                            /\ flood_marked' = flood_marked + 1
                            /\ IF board[<<row, col>>] = 0
                               THEN /\ flood_stack' =
                                         [flood_stack EXCEPT
                                            ![Len(flood_stack)] =
                                                <<row, col, 1>>]
                                    /\ UNCHANGED <<game_over, game_won, ret>>
                               ELSE FloodPop(rev)
           ELSE IF i <= Len(Dirs)
           THEN /\ flood_stack' =
                     Append([flood_stack EXCEPT
                                ![Len(flood_stack)] = <<row, col, i + 1>>],
                            <<row + Dirs[i][1], col + Dirs[i][2], 0>>)
                /\ UNCHANGED <<revealed, game_over, game_won, ret,
                               flood_visits, flood_marked>>
           ELSE /\ FloodPop(revealed)
                /\ UNCHANGED <<revealed, flood_visits, flood_marked>>
    /\ UNCHANGED <<rows, cols, mines, board, flagged, first_click,
                   relocated, op>>
    /\ UNCHANGED <<ledgerVars, ledgerHistory, tierVars, roundVars, slotVars>>

\* reveal_cell(row, col) up to its call of _flood_fill
RevealStart(row, col) ==
    /\ flood_stack = <<>>
    /\ op' = "reveal_cell"
    /\ flood_visits' = 0
    /\ flood_marked' = 0
    /\ UNCHANGED <<rows, cols, mines, flagged, revealed>>
    /\ IF RevealNoOp(row, col)
       THEN /\ ret' = FALSE
            /\ UNCHANGED <<board, game_over, game_won, first_click,
                           relocated, flood_stack>>
       ELSE /\ \E b \in (IF first_click /\ board[<<row, col>>] = MINE
                         THEN EnsureSafeFirstClick(board, row, col)
                         ELSE {board}) :
                 /\ board' = b
                 /\ relocated' = (relocated \/ b # board)
                 /\ IF HitMine(b, row, col)
                    THEN /\ game_over' = TRUE
                         /\ game_won' = FALSE
                         /\ ret' = TRUE
                         /\ UNCHANGED flood_stack
                    ELSE /\ flood_stack' = << <<row, col, 0>> >>
                         /\ UNCHANGED <<game_over, game_won, ret>>
            /\ first_click' = FALSE

FloodNew ==
    /\ rows = 0
    /\ NewGame(MaxCells)
    /\ UNCHANGED <<ledgerVars, ledgerHistory>>
    /\ UNCHANGED <<tierVars, floodVars, roundVars, slotVars>>

FloodReveal ==
    /\ rows > 0
    /\ \E p \in Positions : RevealStart(p[1], p[2])
    /\ UNCHANGED <<ledgerVars, ledgerHistory, tierVars, roundVars, slotVars>>

FloodNext == FloodNew \/ FloodReveal \/ FloodStep

\* a call that has been entered runs on: the interpreter takes the next
\* step of the innermost frame
FloodSpec ==
    LedgerOnlyInit /\ [][FloodNext]_vars /\ WF_vars(FloodStep)

-----------------------------------------------------------------------------
(* The round controller, class MinesweeperGamblingGUI.  self.game is None  *)
(* while rows = 0.  The widgets are left out; of the dialogs only whether  *)
(* the bet dialog is open is kept.  At most MaxRounds rounds are begun,    *)
(* each with a game of a tier of at most MaxRoundCells cells; the player   *)
(* begins a round when no game is in progress and picks one of RoundTiers. *)

\* The amounts typed into the bet dialog, in cents: $0.50 and $10
RoundAmounts == {50, 1000}

\* The radio buttons picked in the difficulty dialog
RoundTiers == {"easy", "hard"}

\* "New Game" and then "Next" in the difficulty dialog: new_game refuses
\* with a bankroll under 1, confirm_difficulty stores the choice of one of
\* DIFFICULTIES.keys() and opens the bet dialog
ConfirmDifficulty(difficulty) ==
    /\ rounds < MaxRounds
    /\ rows = 0 \/ game_over
    /\ bankroll >= MIN_BET
    /\ gui_difficulty' = difficulty
    /\ bet_window' = TRUE
    /\ gui_op' = "none"
    /\ UNCHANGED <<rounds, settlements>>
    /\ UNCHANGED <<ledgerVars, ledgerHistory, gameAll>>

\* confirm_bet, with start_game when the bet is within MIN_BET and
\* min(bankroll, MAX_BET); otherwise only an error box is shown.
\* (start_game stops with AttributeError where it reads self.restart_game,
\* which no class defines; by then self.game is set and the cell buttons
\* are bound, so the round is played as if it had returned.)
ConfirmBet(bet) ==
    /\ bet_window
    /\ IF MIN_BET <= bet /\ bet <= bankroll /\ bet <= MAX_BET
       THEN /\ rounds < MaxRounds
            /\ PlaceBet(bet, gui_difficulty)
            /\ bet_window' = FALSE
            /\ NewGame(MaxRoundCells)
            /\ rounds' = rounds + 1
            /\ settlements' = 0
            /\ gui_op' = "none"
            /\ UNCHANGED gui_difficulty
       ELSE /\ gui_op' = "none"
            /\ UNCHANGED <<gui_difficulty, bet_window, rounds, settlements>>
            /\ UNCHANGED <<ledgerVars, ledgerHistory, gameAll>>

ClickReturnsNoGameOnly == rows = 0

\* left_click and right_click: "if not self.game or
\* self.game.is_game_over(): return"
ClickReturns == rows = 0 \/ game_over

\* handle_game_end: win_game if the game is won, lose_game otherwise
HandleGameEnd(won) ==
    /\ IF won THEN WinGame ELSE LoseGame
    /\ settlements' = settlements + 1
    /\ gui_op' = (IF won THEN "win_game" ELSE "lose_game")

\* left_click
LeftClick(row, col) ==
    /\ UNCHANGED <<gui_difficulty, bet_window, rounds>>
    /\ IF ClickReturns
       THEN /\ gui_op' = "none"
            /\ UNCHANGED <<settlements, ledgerVars, ledgerHistory, gameAll>>
       ELSE /\ RevealCell(row, col)
            /\ IF game_over'
               THEN HandleGameEnd(game_won')
               ELSE /\ gui_op' = "none"
                    /\ UNCHANGED <<settlements, ledgerVars, ledgerHistory>>

\* right_click
RightClick(row, col) ==
    /\ gui_op' = "none"
    /\ UNCHANGED <<gui_difficulty, bet_window, rounds, settlements>>
    /\ UNCHANGED <<ledgerVars, ledgerHistory>>
    /\ IF ClickReturns
       THEN UNCHANGED gameAll
       ELSE ToggleFlag(row, col)

Difficulty ==
    /\ \E difficulty \in RoundTiers : ConfirmDifficulty(difficulty)
    /\ UNCHANGED <<tierVars, floodVars, slotVars>>

Bet ==
    /\ \E bet \in RoundAmounts : ConfirmBet(bet)
    /\ UNCHANGED <<tierVars, floodVars, slotVars>>

Left ==
    /\ \E p \in Positions : LeftClick(p[1], p[2])
    /\ UNCHANGED <<tierVars, floodVars, slotVars>>

Right ==
    /\ \E p \in Positions : RightClick(p[1], p[2])
    /\ UNCHANGED <<tierVars, floodVars, slotVars>>

RoundNext == Difficulty \/ Bet \/ Left \/ Right

RoundSpec == LedgerOnlyInit /\ [][RoundNext]_vars

-----------------------------------------------------------------------------
(* The reel game, class SlotsGame.  Thread t is the animate_spin thread of *)
(* the t-th slots window (start_slots makes a new SlotsGame on every       *)
(* call); its Spin button is disabled while it runs.  The statement        *)
(* "self.gambling.bankroll += payout" is a load of the attribute followed  *)
(* by a store, and nothing keeps another thread from running in between.   *)
(* At most MaxSpins spins are started.                                     *)

\* animate_spin: symbols
Symbols == {"cherry", "lemon", "bell", "star", "diamond", "seven"}

Spins == Symbols \X Symbols \X Symbols

\* The amounts typed into the bet entry, in cents: $0.50 and $10
SlotAmounts == {50, 1000}

SpinChangeSevenFirst(spin, bet) ==
    IF spin[1] = spin[2] /\ spin[2] = spin[3] THEN bet * 20
    ELSE IF "seven" \in {spin[1], spin[2], spin[3]} THEN bet * 2
    ELSE IF Cardinality({spin[1], spin[2], spin[3]}) = 2 THEN bet * 5
    ELSE 0 - bet

\* animate_spin: what the branch taken for the final spin adds to the
\* bankroll (bet * 20, bet * 5, bet * 2, or the bet taken away)
SpinChange(spin, bet) ==
    IF spin[1] = spin[2] /\ spin[2] = spin[3] THEN bet * 20
    ELSE IF Cardinality({spin[1], spin[2], spin[3]}) = 2 THEN bet * 5
    ELSE IF "seven" \in {spin[1], spin[2], spin[3]} THEN bet * 2
    ELSE 0 - bet

\* play_slots, on the UI thread
PlaySlots(t, bet) ==
    /\ spinners[t].pc = "idle"
    /\ spins < MaxSpins
    /\ UNCHANGED <<bankroll, current_difficulty, ledgerHistory, slot_total>>
    /\ IF bet < MIN_BET \/ bet > bankroll \/ bet > MAX_BET
       THEN UNCHANGED <<current_bet, spinners, spins>>
       ELSE /\ current_bet' = bet
            /\ spinners' = [spinners EXCEPT
                               ![t] = [pc |-> "spinning", bet |-> bet,
                                       change |-> 0, loaded |-> 0]]
            /\ spins' = spins + 1

\* animate_spin up to the bankroll update: the final spin is drawn, the
\* animation runs, and the branch for the spin is taken
SpinResult(t, spin) ==
    /\ spinners[t].pc = "spinning"
    /\ spinners' = [spinners EXCEPT
                       ![t].pc = "computed",
                       ![t].change = SpinChange(spin, spinners[t].bet)]
    /\ UNCHANGED <<ledgerVars, ledgerHistory, spins, slot_total>>

\* "self.gambling.bankroll += payout" / "-= bet": the attribute is loaded
SpinLoad(t) ==
    /\ spinners[t].pc = "computed"
    /\ spinners' = [spinners EXCEPT ![t].pc = "loaded",
                                    ![t].loaded = bankroll]
    /\ UNCHANGED <<ledgerVars, ledgerHistory, spins, slot_total>>

\* ... and the sum is stored; the labels are refreshed, the Spin button is
\* enabled again and the thread ends
SpinStore(t) ==
    /\ spinners[t].pc = "loaded"
    /\ bankroll' = spinners[t].loaded + spinners[t].change
    /\ slot_total' = slot_total + spinners[t].change
    /\ spinners' = [spinners EXCEPT ![t] = IdleThread]
    /\ UNCHANGED <<current_bet, current_difficulty, ledgerHistory, spins>>

Play ==
    /\ \E t \in Threads, bet \in SlotAmounts : PlaySlots(t, bet)
    /\ UNCHANGED <<gameAll, tierVars, floodVars, roundVars>>

Result ==
    /\ \E t \in Threads, spin \in Spins : SpinResult(t, spin)
    /\ UNCHANGED <<gameAll, tierVars, floodVars, roundVars>>

Load ==
    /\ \E t \in Threads : SpinLoad(t)
    /\ UNCHANGED <<gameAll, tierVars, floodVars, roundVars>>

Store ==
    /\ \E t \in Threads : SpinStore(t)
    /\ UNCHANGED <<gameAll, tierVars, floodVars, roundVars>>

SlotsNext == Play \/ Result \/ Load \/ Store

SlotsSpec == LedgerOnlyInit /\ [][SlotsNext]_vars

-----------------------------------------------------------------------------
\* C21: an unknown tier name is never silently accepted: constructing a game
\* with a name that is not a tier raises and leaves the caller with the game
\* it had, and place_bet, the ledger call that receives the name, reports
\* the error and records nothing.
C21_UnknownTierSurfaced ==
    [][\A difficulty \in TierNames \ DifficultyNames :
          /\ Construct(difficulty)
                => op' = "KeyError" /\ UNCHANGED gameVars
          /\ \A amount \in TierAmounts :
                PlaceBet(amount, difficulty)
                    => /\ ~ledger_ret'.ok
                       /\ UNCHANGED <<current_bet, current_difficulty>>]_vars

-----------------------------------------------------------------------------
\* C22: the mine layout changes only inside a reveal_cell call made while
\* first_click holds, and at most once: that change moves the mine of the
\* target (which the call then reveals) to a cell that held no mine and is
\* not the target, keeps the number of mines at self.mines and leaves
\* every number equal to the count of mine neighbours.  Every reveal_cell
\* call that passes the no-op guards clears first_click, relocation or not,
\* and once first_click is cleared the board never changes.
C22_RelocationOnce ==
    [][/\ board' # board =>
             /\ first_click /\ ~relocated /\ relocated'
             /\ op' = "reveal_cell" /\ ret' = TRUE
             /\ \E p \in MineCells(board), q \in AllCells \ MineCells(board) :
                   /\ q # p
                   /\ revealed'[p]
                   /\ MineCells(board') = (MineCells(board) \ {p}) \cup {q}
             /\ Cardinality(MineCells(board')) = mines
             /\ \A c \in AllCells \ MineCells(board') :
                   board'[c] = Cardinality(MineNeighbours(board', c))
       /\ (op' = "reveal_cell" /\ ret' = TRUE) => ~first_click'
       /\ (~first_click \/ relocated) => board' = board]_vars

C22_Witness ==
    /\ relocated
    /\ ~first_click
    /\ op = "toggle_flag"
    /\ ret = TRUE
    /\ mines >= 1
    /\ Cardinality(MineCells(board)) = mines

-----------------------------------------------------------------------------
\* C23: every _flood_fill terminates.  A call that is entered either
\* returns at once, leaving the revealed matrix as it was, or marks one
\* cell that was not revealed; so a reveal_cell call marks at most
\* rows*cols cells, enters at most 1 + 8*rows*cols calls, never nests
\* deeper than rows*cols + 1 frames, and its call stack always empties.
C23_FloodFillTerminates ==
    /\ [](/\ flood_marked <= rows * cols
          /\ flood_visits <= 1 + Len(Dirs) * flood_marked
          /\ Len(flood_stack) <= rows * cols + 1)
    /\ [][flood_visits' = flood_visits + 1 =>
             \/ /\ revealed' = revealed
                /\ Len(flood_stack') = Len(flood_stack) - 1
             \/ /\ flood_marked' = flood_marked + 1
                /\ \E p \in AllCells :
                      /\ ~revealed[p]
                      /\ revealed' = [revealed EXCEPT ![p] = TRUE]]_vars
    /\ (flood_stack # <<>>) ~> (flood_stack = <<>>)

C23_Witness ==
    /\ flood_stack = <<>>
    /\ flood_marked = rows * cols
    /\ flood_marked >= 4
    /\ flood_visits = 1 + Len(Dirs) * flood_marked
    /\ ret = TRUE

-----------------------------------------------------------------------------
\* C24: the round controller settles each game at most once and only when
\* it is over.  A settlement is made exactly in the step in which the
\* game goes from not over to over, and that step is a left click; it is
\* win_game when the game is won and lose_game when it is lost.  Every
\* other step, clicks on a finished game included, settles nothing and
\* leaves the bankroll alone.
C24_SettledOnce ==
    /\ [](/\ settlements <= 1
          /\ rows > 0 => (settlements = 1 <=> game_over))
    /\ [][IF rows > 0 /\ ~game_over /\ game_over'
          THEN /\ \E p \in AllCells : LeftClick(p[1], p[2])
               /\ settlements' = settlements + 1
               /\ gui_op' = (IF game_won' THEN "win_game" ELSE "lose_game")
               /\ ledger_op' = gui_op'
               /\ IF game_won' THEN WinGame ELSE LoseGame
          ELSE /\ gui_op' = "none"
               /\ settlements' # settlements + 1
               /\ bankroll' = bankroll]_vars

C24_Witness ==
    /\ rounds = MaxRounds
    /\ game_over
    /\ settlements = 1
    /\ gui_op = "none"
    /\ ledger_op \in {"win_game", "lose_game"}

-----------------------------------------------------------------------------
\* C25: the updates of the bankroll are mutually exclusive: at no time
\* have two spin threads loaded the bankroll without having stored it
\* back, and so, whenever no thread is running, the bankroll is the
\* initial bankroll plus every change that was computed and written.
C25_MutualExclusion ==
    /\ Cardinality({t \in Threads : spinners[t].pc = "loaded"}) <= 1
    /\ (\A t \in Threads : spinners[t].pc = "idle")
          => bankroll = INITIAL_BANKROLL + slot_total

-----------------------------------------------------------------------------
\* The change the reel game owes for a spin with stake b, by the number of
\* distinct symbols: three equal 20*b; exactly two equal 5*b; all
\* different with a seven 2*b; otherwise the stake is lost.
ReelTable(spin, b) ==
    LET distinct == Cardinality({spin[1], spin[2], spin[3]})
        seven == spin[1] = "seven" \/ spin[2] = "seven" \/ spin[3] = "seven"
    IN  CASE distinct = 1 -> 20 * b
          [] distinct = 2 -> 5 * b
          [] distinct = 3 /\ seven -> 2 * b
          [] distinct = 3 /\ ~seven -> 0 - b

\* C26: a spin with stake b changes the bankroll exactly once, by the
\* amount the three final symbols determine: +20*b for three equal, +5*b
\* for exactly two equal, +2*b for three different with a seven, -b
\* otherwise.  (The bankroll meant is the one the thread loaded; the step
\* that stores it is the only one that changes the bankroll.)
C26_ReelPayout ==
    [][/\ \A t \in Threads :
             /\ (spinners[t].pc = "spinning"
                    /\ spinners'[t].pc = "computed") =>
                   \A spin \in Spins :
                      SpinResult(t, spin) =>
                         spinners'[t].change =
                             ReelTable(spin, spinners[t].bet)
             /\ SpinStore(t) =>
                   /\ bankroll' = spinners[t].loaded + spinners[t].change
                   /\ spinners[t].loaded = bankroll =>
                          bankroll' = bankroll + spinners[t].change
       /\ bankroll' # bankroll => \E t \in Threads : SpinStore(t)]_vars

C26_Witness ==
    /\ spins = 2
    /\ \A t \in Threads : spinners[t].pc = "idle"
    /\ slot_total = 2 * 1000 + 5 * 1000
    /\ bankroll = INITIAL_BANKROLL + slot_total

-----------------------------------------------------------------------------
\* C27: in every reachable state no cell that holds a mine is marked
\* revealed; in particular the mine whose reveal loses the game is not.
C27_NoMineRevealed ==
    \A p \in AllCells : revealed[p] => board[p] # MINE

C27_Witness ==
    /\ Lost
    /\ mines >= 1
    /\ Cardinality(RevealedCells(revealed)) >= 4
    /\ op = "reveal_cell"
    /\ ret = TRUE

-----------------------------------------------------------------------------
\* C28: after every operation each revealed cell with number 0 has all its
\* in-bounds neighbours revealed, and a cell that is revealed stays
\* revealed.
C28_RevealClosure ==
    /\ [](\A p \in AllCells :
             (revealed[p] /\ board[p] = 0) =>
                 \A q \in AllCells : Adjacent(p, q) => revealed[q])
    /\ [][\A p \in AllCells : revealed[p] => revealed'[p]]_vars

C28_Witness ==
    /\ ~game_over
    /\ op = "reveal_cell"
    /\ mines >= 1
    /\ \E p \in AllCells, q \in AllCells :
          /\ revealed[p] /\ board[p] = 0
          /\ Adjacent(p, q) /\ revealed[q] /\ flagged[q]
    /\ \E p \in AllCells : revealed[p] /\ board[p] >= 1

=============================================================================
